---- MODULE Spec2Model ----
(***************************************************************************)
(* A model of the rebalancing bot of src/bot.py (Bot, CryptoRebalancer),   *)
(* of the snapshot evaluator of src/trading/enhanced_logic.py              *)
(* (EnhancedTradingLogic) and of the rows of src/api/database.py they read *)
(* and write.  One bot row is modelled.  Three drivers of the repository   *)
(* use it, and `engine` says which one a behaviour follows:                *)
(*   "rebalancer"  CryptoRebalancer.run: one check_and_rebalance_bot per   *)
(*                 scheduler tick, and process restarts (setup_bots);      *)
(*   "script"      the direct use of Bot made by src/api/test_bot_swap.py  *)
(*                 and src/test_protection.py: update_prices with either   *)
(*                 value of store_as_last, calculate_changes,              *)
(*                 find_best_swap;                                         *)
(*   "enhanced"    EnhancedTradingLogic: initialize_snapshots,             *)
(*                 should_swap, update_after_swap.                         *)
(* Floats are modelled as exact rationals <<n, d>>, d > 0, in lowest       *)
(* terms, so rounding is not modelled.                                     *)
(***************************************************************************)
EXTENDS Integers, Sequences, FiniteSets, TLC

\* ------------------------------------------------------------------ bounds
MaxTrades == 2
MaxHistory == 2
MaxSwaps == 2
MaxTicks == 2

\* ------------------------------------------------------- program constants
DefaultMaxGlobalEquivalent == 1
DefaultGlobalThresholdPct == 10
TradeAmount == 1
FeeFactorPct == 99
MinAcceptablePct == 90
InitialUnits == 1

\* ---------------------------------------------------------------- rationals
Abs(n) == IF n < 0 THEN -n ELSE n

RECURSIVE GCD(_, _)
GCD(a, b) == IF b = 0 THEN a ELSE GCD(b, a % b)

R(n, d) ==
    LET s == IF d < 0 THEN -1 ELSE 1
        g == GCD(Abs(n), Abs(d))
    IN  <<(s * n) \div g, (s * d) \div g>>

RInt(n) == <<n, 1>>
RLt(a, b) == a[1] * b[2] < b[1] * a[2]
RLe(a, b) == a[1] * b[2] <= b[1] * a[2]
RMul(a, b) == R(a[1] * b[1], a[2] * b[2])
RDiv(a, b) == R(a[1] * b[2], a[2] * b[1])
RSub(a, b) == R(a[1] * b[2] - b[1] * a[2], a[2] * b[2])
Pct(p) == R(p, 100)

\* -------------------------------------------------------------- vocabulary
NULL == ""
NoTrade == 0
NoTime == -1

Coins == <<"X", "Y", "Z">>
CoinSet == {Coins[i] : i \in 1..Len(Coins)}

EmptyMap == [c \in {} |-> 0]
Has(m, c) == c \in DOMAIN m
Restrict(m, S) == [c \in S |-> m[c]]
Override(m, b) == [c \in (DOMAIN m) \cup (DOMAIN b) |-> IF c \in DOMAIN b THEN b[c] ELSE m[c]]

PFlat == [c \in CoinSet |-> 10]
PUp == [c \in CoinSet |-> IF c = "Y" THEN 12 ELSE 10]
PPartial == [c \in {"X", "Y"} |-> 10]
PSteep == [c \in CoinSet |-> IF c = "Y" THEN 12 ELSE IF c = "Z" THEN 15 ELSE 10]
PZero == [c \in CoinSet |-> IF c = "Z" THEN 0 ELSE 10]

\* What a price source may answer to get_market_prices: a map (possibly
\* partial, possibly empty) or an exception.
SourceMaps == {PFlat, PUp, PPartial, EmptyMap}
Answer(m) == [raised |-> FALSE, prices |-> m]
Raised == [raised |-> TRUE, prices |-> EmptyMap]
SourceAnswers == {Answer(m) : m \in SourceMaps} \cup {Raised}

Terminal == {"completed", "failed", "cancelled"}
GatewayStatuses == Terminal \cup {"pending", "unknown", "error"}

VARIABLES
    engine,         \* which driver of the repository runs
    db_bot,         \* the committed row of table bots
    bot,            \* the in-memory Bot object of bot.py
    trades,         \* the committed rows of table trades, in insertion order
    price_history,  \* table price_history: one map per update_prices call
    coin_units,     \* table coin_unit_tracker: coin -> units
    snapshots,      \* table coin_snapshots: coin -> CoinSnapshot
    swaps,          \* number of update_after_swap calls made so far
    obs,            \* what the last operation did (history variable)
    par             \* the tasks of one CryptoRebalancer and its shared session

vars == <<engine, db_bot, bot, trades, price_history, coin_units, snapshots, swaps, obs, par>>

\* ------------------------------------------------------------ Bot.__init__
\* Rows of one update_prices call carry one timestamp, so ORDER BY timestamp
\* DESC LIMIT n may cut a batch at any of its rows; in the dict comprehension
\* a later (older) row of a coin replaces an earlier (newer) one.
RECURSIVE SeedChoices(_, _, _, _)
SeedChoices(h, i, need, acc) ==
    IF i = 0 \/ need = 0 THEN {acc}
    ELSE LET b == h[i]
             k == Cardinality(DOMAIN b)
         IN  IF k <= need
             THEN SeedChoices(h, i - 1, need - k, Override(acc, b))
             ELSE UNION { SeedChoices(h, i - 1, 0, Override(acc, Restrict(b, S))) :
                          S \in {T \in SUBSET (DOMAIN b) : Cardinality(T) = need} }

LatestPrices(h) == SeedChoices(h, Len(h), Len(Coins), EmptyMap)

Truthy(r) == r[1] # 0

BotInit(row, last) ==
    [ enabled |-> row.enabled,
      threshold_pct |-> row.threshold_percentage,
      check_interval |-> row.check_interval,
      current_coin |-> IF row.current_coin # NULL THEN row.current_coin ELSE row.initial_coin,
      last_check_time |-> row.last_check_time,
      active_trade_id |-> row.active_trade_id,
      reference_coin |-> IF row.reference_coin # NULL THEN row.reference_coin ELSE row.initial_coin,
      max_global_equivalent |-> IF Truthy(row.max_global_equivalent)
                                THEN row.max_global_equivalent
                                ELSE RInt(DefaultMaxGlobalEquivalent),
      global_threshold_pct |-> IF row.global_threshold_percentage # 0
                               THEN row.global_threshold_percentage
                               ELSE DefaultGlobalThresholdPct,
      last_prices |-> last ]

\* ------------------------------------------------------- Bot.should_check
\* last_check_time is kept as the number of whole minutes since the last
\* check, capped at check_interval (NoTime: never checked).
\* A faulty variant: the interval is never looked at.
should_check_always(b) == TRUE

should_check(b) ==
    \/ b.last_check_time = NoTime
    \/ b.last_check_time >= b.check_interval

Age(t, interval) ==
    IF t = NoTime THEN NoTime
    ELSE IF t < interval THEN t + 1 ELSE interval

\* ---------------------------------------------------------- Bot.get_prices
\* The fallback source is called in the except branch only (lines 72-86).
FallbackQueried(primary) == primary.raised

\* What the primary source did, for the history record.
PrimaryOutcome(primary) ==
    IF primary.raised THEN "raised"
    ELSE IF primary.prices = EmptyMap THEN "empty" ELSE "prices"

get_prices(primary, fallback) ==
    IF ~FallbackQueried(primary) THEN primary.prices
    ELSE IF ~fallback.raised THEN fallback.prices
    ELSE EmptyMap

\* --------------------------------------------------- Bot.calculate_changes
\* The changes of every other coin of the basket, or an exception (KeyError
\* on a coin missing from either map, ZeroDivisionError on a zero
\* denominator).
Changes(m) == [raised |-> FALSE, changes |-> m]
ChangesRaised == [raised |-> TRUE, changes |-> EmptyMap]

\* Lines 138-154: the loop over self.coins, entered with the held coin in
\* both maps.
ChangesLoop(b, current_prices) ==
    LET current_coin_price == current_prices[b.current_coin]
        last_coin_price    == b.last_prices[b.current_coin]
        others == CoinSet \ {b.current_coin}
        bad(c) == \/ ~Has(current_prices, c)
                  \/ ~Has(b.last_prices, c)
                  \/ current_coin_price = 0
                  \/ last_coin_price = 0
                  \/ b.last_prices[c] = 0
        change(c) ==
            LET current_ratio == R(current_prices[c], current_coin_price)
                last_ratio    == R(b.last_prices[c], last_coin_price)
            IN  RDiv(RSub(current_ratio, last_ratio), last_ratio)
    IN  IF \E c \in others : bad(c) THEN ChangesRaised
        ELSE Changes([c \in others |-> change(c)])

\* A faulty variant: the membership tests of lines 130-136 are missing, so
\* the lookup of the held coin raises KeyError.
calculate_changes_raising(b, current_prices) ==
    IF b.current_coin = NULL THEN Changes(EmptyMap)
    ELSE IF b.last_prices = EmptyMap THEN Changes(EmptyMap)
    ELSE IF ~Has(current_prices, b.current_coin) THEN ChangesRaised
    ELSE IF ~Has(b.last_prices, b.current_coin) THEN ChangesRaised
    ELSE ChangesLoop(b, current_prices)

calculate_changes(b, current_prices) ==
    IF b.current_coin = NULL THEN Changes(EmptyMap)
    ELSE IF b.last_prices = EmptyMap THEN Changes(EmptyMap)
    ELSE IF ~Has(current_prices, b.current_coin) THEN Changes(EmptyMap)
    ELSE IF ~Has(b.last_prices, b.current_coin) THEN Changes(EmptyMap)
    ELSE ChangesLoop(b, current_prices)

\* ------------------------------------------------------ Bot.find_best_swap
\* The loop over changes.items(), in the order of self.coins.
RECURSIVE BestLoop(_, _, _, _)
BestLoop(changes, threshold, i, best) ==
    IF i > Len(Coins) THEN best
    ELSE LET coin == Coins[i]
         IN  IF /\ Has(changes, coin)
                /\ RLt(threshold, changes[coin])
                /\ (best = NULL \/ RLt(changes[best], changes[coin]))
             THEN BestLoop(changes, threshold, i + 1, coin)
             ELSE BestLoop(changes, threshold, i + 1, best)

\* A faulty variant of find_best_swap: the bar is >= instead of >.
RECURSIVE BestLoopAtLeast(_, _, _, _)
BestLoopAtLeast(changes, threshold, i, best) ==
    IF i > Len(Coins) THEN best
    ELSE LET coin == Coins[i]
         IN  IF /\ Has(changes, coin)
                /\ RLe(threshold, changes[coin])
                /\ (best = NULL \/ RLt(changes[best], changes[coin]))
             THEN BestLoopAtLeast(changes, threshold, i + 1, coin)
             ELSE BestLoopAtLeast(changes, threshold, i + 1, best)

\* A faulty variant of find_best_swap: the first candidate over the bar wins.
RECURSIVE BestLoopFirst(_, _, _, _)
BestLoopFirst(changes, threshold, i, best) ==
    IF i > Len(Coins) THEN best
    ELSE LET coin == Coins[i]
         IN  IF /\ Has(changes, coin)
                /\ RLt(threshold, changes[coin])
                /\ best = NULL
             THEN BestLoopFirst(changes, threshold, i + 1, coin)
             ELSE BestLoopFirst(changes, threshold, i + 1, best)

find_best_swap_first(b, changes) ==
    IF b.current_coin = NULL \/ b.last_prices = EmptyMap THEN NULL
    ELSE IF changes = EmptyMap THEN NULL
    ELSE BestLoopFirst(changes, Pct(b.threshold_pct), 1, NULL)

find_best_swap_at_least(b, changes) ==
    IF b.current_coin = NULL \/ b.last_prices = EmptyMap THEN NULL
    ELSE IF changes = EmptyMap THEN NULL
    ELSE BestLoopAtLeast(changes, Pct(b.threshold_pct), 1, NULL)

find_best_swap(b, changes) ==
    IF b.current_coin = NULL \/ b.last_prices = EmptyMap THEN NULL
    ELSE IF changes = EmptyMap THEN NULL
    ELSE BestLoop(changes, Pct(b.threshold_pct), 1, NULL)

\* ------------------------------------------ Bot.estimate_units_to_receive
\* Lines 258-265 of bot.py: 0 when a price is missing.  The rest of the body
\* is not in the file; the estimate is amount * price(from) / price(to).
estimate_units_to_receive(from_coin, to_coin, amount, current_prices) ==
    IF ~Has(current_prices, from_coin) \/ ~Has(current_prices, to_coin) THEN RInt(0)
    ELSE IF current_prices[to_coin] = 0 THEN RInt(0)
    ELSE RMul(amount, R(current_prices[from_coin], current_prices[to_coin]))

\* Bot.calculate_global_equivalent is called by bot.py and test_protection.py
\* and defined in neither: units * price(coin) / price(reference coin).
calculate_global_equivalent(b, coin, units, prices) ==
    IF ~Has(prices, coin) \/ ~Has(prices, b.reference_coin) THEN RInt(0)
    ELSE IF prices[b.reference_coin] = 0 THEN RInt(0)
    ELSE RMul(units, R(prices[coin], prices[b.reference_coin]))

\* ------------------------------------- Bot.get_last_held_units / update_held_units
get_last_held_units(coin) == IF Has(coin_units, coin) THEN coin_units[coin] ELSE RInt(0)

update_held_units(tracker, coin, units) == Override(tracker, [c \in {coin} |-> units])

\* ---------------------------------------------------------- history record
NoObs ==
    [ op |-> "init", path |-> NULL, start_trade |-> NoTrade, start_coin |-> NULL,
      baseline |-> EmptyMap, prices |-> EmptyMap, fetched |-> FALSE,
      gateway |-> NULL, status |-> NULL, changes |-> EmptyMap, target |-> NULL,
      primary |-> NULL, fallback_queried |-> FALSE ]

\* -------------------------------- the trade-status handling, bot.py 267-291
TradeIndex(id) ==
    IF \E i \in 1..Len(trades) : trades[i].trade_id = id
    THEN CHOOSE i \in 1..Len(trades) :
            /\ trades[i].trade_id = id
            /\ \A j \in 1..(i - 1) : trades[j].trade_id # id
    ELSE 0

\* A faulty variant of the ratchet: the comparison of line 282 is dropped.
RatchetOnCompletion_unguarded(current_max, global_equivalent) == global_equivalent

RatchetOnCompletion(current_max, global_equivalent) ==
    IF RLt(current_max, global_equivalent) THEN global_equivalent ELSE current_max

ClearsActiveTrade(status) == status \in Terminal

\* A faulty variant: every terminal status updates the units and the peak.
UpdatesUnits_terminal(status) == status \in Terminal

\* Line 275: unit tracking and the ratchet run for 'completed' only.
UpdatesUnits(status) == status = "completed"

\* A faulty variant: a failed or cancelled trade puts the source coin back.
HeldAfterStatus_reverting(b, i, status) ==
    IF i # 0 /\ status \in {"failed", "cancelled"} THEN trades[i].from_coin
    ELSE b.current_coin

\* Lines 267-291 assign neither current_coin nor db_bot.current_coin.
HeldAfterStatus(b, i, status) == b.current_coin

trade_status_handling(b, row, status) ==
    LET i == TradeIndex(b.active_trade_id)
        changed == i # 0 /\ trades[i].status # status
        completed == changed /\ UpdatesUnits(status)
        trade == trades[i]
        estimated_units ==
            estimate_units_to_receive(trade.from_coin, trade.to_coin,
                                      RInt(TradeAmount), b.last_prices)
        global_equivalent ==
            calculate_global_equivalent(b, trade.to_coin, estimated_units, b.last_prices)
        new_max ==
            IF completed
            THEN RatchetOnCompletion(b.max_global_equivalent, global_equivalent)
            ELSE b.max_global_equivalent
        new_active == IF ClearsActiveTrade(status) THEN NoTrade ELSE b.active_trade_id
    IN  /\ trades' = IF changed THEN [trades EXCEPT ![i].status = status] ELSE trades
        /\ coin_units' = IF completed
                         THEN update_held_units(coin_units, trade.to_coin, estimated_units)
                         ELSE coin_units
        /\ bot' = [b EXCEPT !.max_global_equivalent = new_max,
                            !.active_trade_id = new_active,
                            !.current_coin = HeldAfterStatus(b, i, status)]
        /\ db_bot' = [row EXCEPT !.max_global_equivalent =
                                     IF new_max # b.max_global_equivalent
                                     THEN new_max ELSE @,
                                 !.active_trade_id =
                                     IF ClearsActiveTrade(status) THEN NoTrade ELSE @]

\* Bot.check_active_trade is called at bot.py 377 and its header is not in the
\* file: it polls ThreeCommasClient.get_trade_status and runs the handling.
check_active_trade(b, row, status) == trade_status_handling(b, row, status)

\* ------------------------------------------------------- Bot.update_prices
BaselineAfterUpdate(b, prices, store_as_last) ==
    IF store_as_last THEN prices ELSE b.last_prices

update_prices(b, prices, store_as_last) ==
    [b EXCEPT !.last_check_time = 0,
              !.last_prices = BaselineAfterUpdate(b, prices, store_as_last)]

\* ------------------------------ CryptoRebalancer.check_and_rebalance_bot
\* A faulty variant: the active-trade check of line 375 never fires.
HasActiveTrade_never(b) == FALSE

HasActiveTrade(b) == b.active_trade_id # NoTrade

GatewayAnswers == {"id", "none", "raise"}

\* A faulty variant: the cycle goes on as if every call had returned an id.
TradeCreated_always(gw) == TRUE

\* Lines 429-432: the call raised (return) or returned no id (else branch).
TradeCreated(gw) == gw = "id"

\* The row written by the accept branch, bot.py 446-458.
RowOnAccept(row, trade_id, target_coin) == [row EXCEPT !.current_coin = target_coin]

\* Lines 380-465: the part of the cycle after the active-trade check, given the
\* answers of the price sources and of the gateway.  b and row are the Bot
\* and its row at the time of the call.
Evaluate(b, row, primary, fallback, gw) ==
    LET current_prices == get_prices(primary, fallback)
        b1 == update_prices(b, current_prices, TRUE)
        row1 == [row EXCEPT !.last_check_time = 0]
        set_initial == b1.current_coin = NULL /\ row1.initial_coin # NULL
        b2 == IF set_initial THEN [b1 EXCEPT !.current_coin = row1.initial_coin] ELSE b1
        row2 == IF set_initial THEN [row1 EXCEPT !.current_coin = row1.initial_coin] ELSE row1
        ch == calculate_changes(b2, current_prices)
        target_coin == find_best_swap(b2, ch.changes)
        trade_id == Len(trades) + 1
        out(path, bb, rr, hh, tt, cc, tg) ==
            [ path |-> path, bot |-> bb, row |-> rr, history |-> hh, trades |-> tt,
              changes |-> cc, target |-> tg, prices |-> current_prices ]
        h1 == Append(price_history, current_prices)
    IN  IF current_prices = EmptyMap
        THEN out("no_prices", b, row, price_history, trades, EmptyMap, NULL)
        ELSE IF b2.current_coin = NULL
        THEN out("no_coin", b2, row2, h1, trades, EmptyMap, NULL)
        ELSE IF ch.raised
        THEN out("aborted", b2, row2, h1, trades, EmptyMap, NULL)
        ELSE IF ch.changes = EmptyMap
        THEN out("no_changes", b2, row2, h1, trades, EmptyMap, NULL)
        ELSE IF target_coin = NULL
        THEN out("no_target", b2, row2, h1, trades, ch.changes, NULL)
        ELSE IF HasActiveTrade(b2)
        THEN out("blocked", b2, row2, h1, trades, ch.changes, target_coin)
        ELSE IF ~TradeCreated(gw)
        THEN out("gateway_failed", b2, row2, h1, trades, ch.changes, target_coin)
        ELSE out("accepted",
                 [b2 EXCEPT !.active_trade_id = trade_id, !.current_coin = target_coin],
                 RowOnAccept(row2, trade_id, target_coin),
                 h1,
                 Append(trades, [ trade_id |-> trade_id, from_coin |-> b2.current_coin,
                                  to_coin |-> target_coin, status |-> "pending" ]),
                 ch.changes, target_coin)

\* One scheduler tick (CryptoRebalancer.run, check_all_bots): a minute passes
\* and, if the bot is enabled, check_and_rebalance_bot runs.
Aged(b) == [b EXCEPT !.last_check_time = Age(@, b.check_interval)]

Due(b) == b.enabled /\ should_check(b)

TickIdle ==
    /\ engine = "rebalancer"
    /\ ~Due(Aged(bot))
    /\ bot' = Aged(bot)
    /\ db_bot' = Aged(db_bot)
    /\ obs' = [NoObs EXCEPT !.op = "cycle",
                            !.path = IF bot.enabled THEN "not_due" ELSE "disabled",
                            !.start_trade = bot.active_trade_id,
                            !.start_coin = bot.current_coin,
                            !.baseline = bot.last_prices]
    /\ UNCHANGED <<par, engine, trades, price_history, coin_units, snapshots, swaps>>

TickPoll(status) ==
    /\ engine = "rebalancer"
    /\ Due(Aged(bot))
    /\ HasActiveTrade(bot)
    /\ check_active_trade(Aged(bot), Aged(db_bot), status)
    /\ obs' = [NoObs EXCEPT !.op = "cycle", !.path = "poll",
                            !.start_trade = bot.active_trade_id,
                            !.start_coin = bot.current_coin,
                            !.baseline = bot.last_prices,
                            !.status = status]
    /\ UNCHANGED <<par, engine, price_history, snapshots, swaps>>

TickEvaluate(primary, fallback, gw) ==
    /\ engine = "rebalancer"
    /\ Due(Aged(bot))
    /\ ~HasActiveTrade(bot)
    /\ Len(price_history) < MaxHistory
    /\ Len(trades) < MaxTrades
    /\ LET r == Evaluate(Aged(bot), Aged(db_bot), primary, fallback, gw)
       IN  /\ bot' = r.bot
           /\ db_bot' = r.row
           /\ trades' = r.trades
           /\ price_history' = r.history
           /\ obs' = [NoObs EXCEPT !.op = "cycle", !.path = r.path,
                                   !.start_trade = bot.active_trade_id,
                                   !.start_coin = bot.current_coin,
                                   !.baseline = bot.last_prices,
                                   !.prices = r.prices,
                                   !.fetched = TRUE,
                                   !.gateway = IF r.path \in {"accepted", "gateway_failed"}
                                               THEN gw ELSE NULL,
                                   !.changes = r.changes,
                                   !.target = r.target,
                                   !.primary = PrimaryOutcome(primary),
                                   !.fallback_queried = FallbackQueried(primary)]
    /\ UNCHANGED <<par, engine, coin_units, snapshots, swaps>>

\* A process restart: setup_bots rebuilds the Bot from the committed rows.
Restart ==
    /\ engine = "rebalancer"
    /\ \E last \in LatestPrices(price_history) :
          bot' = BotInit(db_bot, last)
    /\ obs' = [NoObs EXCEPT !.op = "restart",
                            !.start_trade = bot.active_trade_id,
                            !.start_coin = bot.current_coin,
                            !.baseline = bot.last_prices]
    /\ UNCHANGED <<par, engine, db_bot, trades, price_history, coin_units, snapshots, swaps>>

\* ------------------------------- the direct use of Bot by the test scripts
\* api/test_bot_swap.py 54 and 66, test_protection.py 56, 71, 92.
ScriptMaps == {PFlat, PUp, PPartial, PSteep, PZero}

ScriptUpdatePrices(prices, store_as_last) ==
    /\ engine = "script"
    /\ Len(price_history) < MaxHistory
    /\ bot' = update_prices(bot, prices, store_as_last)
    /\ db_bot' = [db_bot EXCEPT !.last_check_time = 0]
    /\ price_history' = Append(price_history, prices)
    /\ obs' = [NoObs EXCEPT !.op = "update_prices",
                            !.start_coin = bot.current_coin,
                            !.baseline = bot.last_prices,
                            !.prices = prices]
    /\ UNCHANGED <<par, engine, trades, coin_units, snapshots, swaps>>

\* test_protection.py 61-63: bot.update_held_units(target_coin, 10.0).
ScriptHeldUnits == 10

ScriptUpdateHeldUnits(coin) ==
    /\ engine = "script"
    /\ coin # bot.current_coin
    /\ coin_units' = update_held_units(coin_units, coin, RInt(ScriptHeldUnits))
    /\ obs' = [NoObs EXCEPT !.op = "update_held_units",
                            !.start_coin = bot.current_coin,
                            !.baseline = bot.last_prices]
    /\ UNCHANGED <<par, engine, db_bot, bot, trades, price_history, snapshots, swaps>>

\* api/test_bot_swap.py 70-74, test_protection.py 78-81:
\* changes = bot.calculate_changes(prices); bot.find_best_swap(changes).
ScriptFindBestSwap(prices) ==
    /\ engine = "script"
    /\ LET ch == calculate_changes(bot, prices)
       IN  obs' = [NoObs EXCEPT !.op = "find_best_swap",
                                !.path = IF ch.raised THEN "aborted" ELSE "returned",
                                !.start_coin = bot.current_coin,
                                !.baseline = bot.last_prices,
                                !.prices = prices,
                                !.changes = ch.changes,
                                !.target = IF ch.raised THEN NULL
                                           ELSE find_best_swap(bot, ch.changes)]
    /\ UNCHANGED <<par, engine, db_bot, bot, trades, price_history, coin_units, snapshots, swaps>>

\* ------------------------------------------------- EnhancedTradingLogic
\* self.bot is the ORM row, so the evaluator reads and writes db_bot.
EA == [c \in CoinSet |-> 100]
EB == [c \in CoinSet |-> IF c = "Y" THEN 106 ELSE 100]
EC == [c \in CoinSet |-> IF c = "Y" THEN 112 ELSE 100]
ED == [c \in CoinSet |-> IF c = "Y" THEN 93 ELSE IF c = "Z" THEN 80 ELSE 100]
EZ == [c \in CoinSet |-> IF c = "Z" THEN 0 ELSE 100]
EF == [c \in CoinSet |-> IF c = "Y" THEN 95 ELSE 100]
EnhancedMaps == {EA, EB, EC, ED, EF, EZ}

\* The units an executed swap reports to update_after_swap.
UnitsReceived == {RInt(1), R(9, 10)}

ReferenceCoin(row) == IF row.reference_coin # NULL THEN row.reference_coin ELSE "ETH"

PriceOrZero(prices, c) == IF Has(prices, c) THEN prices[c] ELSE 0

NewSnapshot(price, is_current) ==
    [ initial_price |-> price,
      units_held |-> IF is_current THEN RInt(InitialUnits) ELSE RInt(0),
      was_ever_held |-> is_current,
      max_units_reached |-> IF is_current THEN RInt(InitialUnits) ELSE RInt(0) ]

\* A faulty variant: the floor is the peak itself.
MinAcceptable_peak(peak) == peak

MinAcceptable(peak) == RMul(peak, Pct(MinAcceptablePct))

\* A faulty variant: no test for an existing snapshot.
Created_overwriting(snaps, prices) == {c \in CoinSet : Has(prices, c)}

\* Lines 74-88: the coins initialize_snapshots creates a snapshot for.
Created(snaps, prices) == {c \in CoinSet : Has(prices, c) /\ ~Has(snaps, c)}

\* initialize_snapshots: the row and the snapshots after the call.
initialize_snapshots(row, snaps, prices) ==
    LET reference_coin == ReferenceCoin(row)
        reference_price == PriceOrZero(prices, reference_coin)
        current_coin == row.current_coin
        created == Created(snaps, prices)
        current_price == PriceOrZero(prices, current_coin)
        set_peak == ~Truthy(row.global_peak_value) /\ current_price > 0
        equivalent_value == R(current_price, reference_price)
    IN  IF reference_price = 0 \/ current_coin = NULL
        THEN [ok |-> FALSE, row |-> row, snapshots |-> snaps]
        ELSE [ ok |-> TRUE,
               row |-> IF set_peak
                       THEN [row EXCEPT !.global_peak_value = equivalent_value,
                                        !.min_acceptable_value = MinAcceptable(equivalent_value)]
                       ELSE row,
               snapshots |-> Override(snaps,
                                 [c \in created |-> NewSnapshot(prices[c], c = current_coin)]) ]

\* The three rules of should_swap, lines 199-223.
Deviation(prices, snaps, coin, current_coin) ==
    RSub(RDiv(R(prices[coin], snaps[coin].initial_price),
              R(prices[current_coin], snaps[current_coin].initial_price)),
         RInt(1))

DeviationRaises(prices, snaps, coin, current_coin) ==
    \/ snaps[coin].initial_price = 0
    \/ snaps[current_coin].initial_price = 0
    \/ prices[current_coin] = 0

\* A faulty variant of Rule 1: a deviation equal to the threshold passes.
Rule1Rejects_above(deviation, threshold) == RLt(threshold, deviation)

Rule1Rejects(deviation, threshold) == RLe(threshold, deviation)

\* A faulty variant of Rule 2: compares with units_held, not the maximum.
Rule2Rejects_units_held(snapshot, estimated_units) ==
    snapshot.was_ever_held /\ RLe(estimated_units, snapshot.units_held)

Rule2Rejects(snapshot, estimated_units) ==
    snapshot.was_ever_held /\ RLe(estimated_units, snapshot.max_units_reached)

Rule3Rejects(estimated_value, min_acceptable_value) ==
    RLt(estimated_value, min_acceptable_value)

PeakAfter(peak, current_value) == IF RLt(peak, current_value) THEN current_value ELSE peak

EstimatedUnits(current_value, reference_price, price) ==
    RDiv(RMul(current_value, RInt(reference_price)), RInt(price))

\* A faulty variant: the units are not converted to the reference coin.
EstimatedValue_units(estimated_units, price, reference_price) ==
    RMul(estimated_units, Pct(FeeFactorPct))

EstimatedValue(estimated_units, price, reference_price) ==
    RMul(RMul(estimated_units, R(price, reference_price)), Pct(FeeFactorPct))

Viable(row, snaps, prices, coin, current_value) ==
    LET current_coin == row.current_coin
        reference_price == prices[ReferenceCoin(row)]
        threshold == Pct(-Abs(row.threshold_percentage))
        estimated_units == EstimatedUnits(current_value, reference_price, prices[coin])
        estimated_value == EstimatedValue(estimated_units, prices[coin], reference_price)
    IN  /\ coin # current_coin
        /\ Has(prices, coin)
        /\ Has(snaps, coin)
        /\ ~DeviationRaises(prices, snaps, coin, current_coin)
        /\ ~Rule1Rejects(Deviation(prices, snaps, coin, current_coin), threshold)
        /\ ~Rule2Rejects(snaps[coin], estimated_units)
        /\ ~Rule3Rejects(estimated_value, row.min_acceptable_value)

\* Line 205 divides by prices[coin] outside the try block.
DivisionRaises(row, snaps, prices, coin) ==
    /\ Has(prices, coin)
    /\ Has(snaps, coin)
    /\ prices[coin] = 0
    /\ ~DeviationRaises(prices, snaps, coin, row.current_coin)
    /\ ~Rule1Rejects(Deviation(prices, snaps, coin, row.current_coin),
                     Pct(-Abs(row.threshold_percentage)))

RECURSIVE SwapLoop(_, _, _, _, _, _)
SwapLoop(row, snaps, prices, current_value, i, best_coin) ==
    IF i > Len(Coins) THEN best_coin
    ELSE LET coin == Coins[i]
             better ==
                 \/ best_coin = NULL
                 \/ RLt(Deviation(prices, snaps, coin, row.current_coin),
                        Deviation(prices, snaps, best_coin, row.current_coin))
         IN  IF Viable(row, snaps, prices, coin, current_value) /\ better
             THEN SwapLoop(row, snaps, prices, current_value, i + 1, coin)
             ELSE SwapLoop(row, snaps, prices, current_value, i + 1, best_coin)

\* should_swap: the row after the call (the peak ratchet) and the result.
should_swap(row, snaps, prices) ==
    LET current_coin == row.current_coin
        reference_coin == ReferenceCoin(row)
        no_data == \/ current_coin = NULL
                   \/ ~Has(prices, reference_coin)
                   \/ ~Has(prices, current_coin)
                   \/ ~Has(snaps, current_coin)
        current_value == RMul(R(prices[current_coin], prices[reference_coin]),
                              snaps[current_coin].units_held)
        peak == PeakAfter(row.global_peak_value, current_value)
        row1 == IF peak # row.global_peak_value
                THEN [row EXCEPT !.global_peak_value = peak,
                                 !.min_acceptable_value = MinAcceptable(peak)]
                ELSE row
    IN  IF no_data
        THEN [path |-> "no_data", row |-> row, target |-> NULL, value |-> RInt(0)]
        ELSE IF prices[reference_coin] = 0
        THEN [path |-> "raised", row |-> row, target |-> NULL, value |-> RInt(0)]
        ELSE IF \E c \in CoinSet \ {current_coin} : DivisionRaises(row1, snaps, prices, c)
        THEN [path |-> "raised", row |-> row1, target |-> NULL, value |-> current_value]
        ELSE [ path |-> "returned", row |-> row1,
               target |-> SwapLoop(row1, snaps, prices, current_value, 1, NULL),
               value |-> current_value ]

\* A faulty variant of update_after_swap: max_units_reached is left alone.
update_after_swap_no_max(row, snaps, from_coin, to_coin, units_received, prices) ==
    IF \/ prices = EmptyMap
       \/ ~Has(prices, to_coin)
       \/ ~Has(prices, ReferenceCoin(row))
       \/ ~Has(snaps, to_coin)
    THEN [row |-> row, snapshots |-> snaps]
    ELSE LET target == [snaps[to_coin] EXCEPT
                           !.units_held = units_received,
                           !.was_ever_held = TRUE]
             s1 == [snaps EXCEPT ![to_coin] = target]
             s2 == IF Has(s1, from_coin)
                   THEN [s1 EXCEPT ![from_coin].units_held = RInt(0)]
                   ELSE s1
         IN  [row |-> [row EXCEPT !.current_coin = to_coin], snapshots |-> s2]

\* update_after_swap: the row and the snapshots after the call.
update_after_swap(row, snaps, from_coin, to_coin, units_received, prices) ==
    IF \/ prices = EmptyMap
       \/ ~Has(prices, to_coin)
       \/ ~Has(prices, ReferenceCoin(row))
       \/ ~Has(snaps, to_coin)
    THEN [row |-> row, snapshots |-> snaps]
    ELSE LET target == [snaps[to_coin] EXCEPT
                           !.units_held = units_received,
                           !.was_ever_held = TRUE,
                           !.max_units_reached =
                               IF RLt(@, units_received) THEN units_received ELSE @]
             s1 == [snaps EXCEPT ![to_coin] = target]
             s2 == IF Has(s1, from_coin)
                   THEN [s1 EXCEPT ![from_coin].units_held = RInt(0)]
                   ELSE s1
         IN  [row |-> [row EXCEPT !.current_coin = to_coin], snapshots |-> s2]

EnhancedInitialize(prices) ==
    /\ engine = "enhanced"
    /\ LET r == initialize_snapshots(db_bot, snapshots, prices)
       IN  /\ db_bot' = r.row
           /\ snapshots' = r.snapshots
           /\ obs' = [NoObs EXCEPT !.op = "initialize_snapshots",
                                   !.path = IF r.ok THEN "true" ELSE "false",
                                   !.start_coin = db_bot.current_coin,
                                   !.prices = prices]
    /\ UNCHANGED <<par, engine, bot, trades, price_history, coin_units, swaps>>

EnhancedShouldSwap(prices) ==
    /\ engine = "enhanced"
    /\ LET r == should_swap(db_bot, snapshots, prices)
       IN  /\ db_bot' = r.row
           /\ obs' = [NoObs EXCEPT !.op = "should_swap",
                                   !.path = r.path,
                                   !.start_coin = db_bot.current_coin,
                                   !.prices = prices,
                                   !.target = r.target]
    /\ UNCHANGED <<par, engine, bot, trades, price_history, coin_units, snapshots, swaps>>

EnhancedUpdateAfterSwap(to_coin, units_received, prices) ==
    /\ engine = "enhanced"
    /\ swaps < MaxSwaps
    /\ db_bot.current_coin # NULL
    /\ to_coin # db_bot.current_coin
    /\ LET r == update_after_swap(db_bot, snapshots, db_bot.current_coin, to_coin,
                                  units_received, prices)
       IN  /\ db_bot' = r.row
           /\ snapshots' = r.snapshots
    /\ swaps' = swaps + 1
    /\ obs' = [NoObs EXCEPT !.op = "update_after_swap",
                            !.start_coin = db_bot.current_coin,
                            !.prices = prices,
                            !.target = to_coin]
    /\ UNCHANGED <<par, engine, bot, trades, price_history, coin_units>>

\* -------------------------------------------------------------------- Init
\* The rows of table bots the drivers start from (seed_config.py,
\* seed_test_data.py, the columns' defaults in database.py).
Row(enabled, threshold, interval, initial, reference, global_threshold) ==
    [ enabled |-> enabled,
      threshold_percentage |-> threshold,
      check_interval |-> interval,
      initial_coin |-> initial,
      current_coin |-> initial,
      last_check_time |-> NoTime,
      active_trade_id |-> NoTrade,
      reference_coin |-> reference,
      max_global_equivalent |-> RInt(DefaultMaxGlobalEquivalent),
      global_threshold_percentage |-> global_threshold,
      global_peak_value |-> RInt(0),
      min_acceptable_value |-> RInt(0) ]

RebalancerRows ==
    { Row(TRUE, th, 1, "X", ref, 10) : th \in {5, -1}, ref \in {NULL, "Y"} }
    \cup { Row(TRUE, -1, 2, "X", NULL, 10),
           Row(FALSE, 5, 1, "X", NULL, 10),
           Row(TRUE, 5, 1, NULL, NULL, 10),
           Row(TRUE, 5, 1, "W", NULL, 10) }

ScriptRows ==
    { Row(TRUE, th, 1, ini, NULL, 10) : th \in {0, 5, 20}, ini \in {"X", "Y"} }
    \cup { Row(TRUE, 5, 1, "X", "Y", 10) }

EnhancedRows ==
    { Row(TRUE, 5, 1, "X", "X", gt) : gt \in {0, 5, 10} }
    \cup { Row(TRUE, 5, 1, "X", NULL, 10) }

\* ------------------------------------- CryptoRebalancer.run with several bots
\* The bots of self.bots share the one session self.db (bot.py 296, 333) and
\* their cycles run as tasks of self.executor.  A task is followed through the
\* statements of check_and_rebalance_bot that touch the session.
bots == {"A", "B"}

Kinds == {"prices", "trades", "current_coin"}

NoWrites == [b \in bots |-> [k \in Kinds |-> 0]]

ParInit(enabled) ==
    [ enabled |-> enabled,
      tick |-> 0,
      running |-> [b \in bots |-> 0],
      pc |-> [b \in bots |-> "idle"],
      session |-> NoWrites,
      store |-> NoWrites,
      ended |-> {},
      crashed |-> FALSE ]

EnabledSets == {{"A", "B"}, {"A"}}

\* self.db.add(...) or an attribute write on an ORM row: pending in the session.
Add(p, b, kind) == [p EXCEPT !.session[b][kind] = @ + 1]

\* self.db.commit(): everything pending in the session is persisted.
Commit(p) ==
    [p EXCEPT !.store = [b \in bots |-> [k \in Kinds |-> p.store[b][k] + p.session[b][k]]],
              !.session = NoWrites]

\* The task of bot b returns; its future is done.
Finish(p, b, how) ==
    [p EXCEPT !.pc[b] = how,
              !.running[b] = @ - 1,
              !.ended = @ \cup {<<b, p.tick, how>>}]

\* The statements of a task that lie inside the try block of lines 370-467.
TryBlock == {"submitted", "priced", "trade_added", "coin_set"}

\* A faulty variant: no except clause around the cycle.
Caught_nothing(pc) == FALSE

Caught(pc) == pc \in TryBlock

\* A faulty variant: check_all_bots returns without waiting for its futures.
AllFinished_no_wait(p) == TRUE

\* Lines 484-485: future.result() for every submitted task.
AllFinished(p) == \A b \in bots : p.running[b] = 0

\* Lines 476-483, one run of check_all_bots: a task per enabled bot.
ParTick ==
    /\ engine = "parallel"
    /\ ~par.crashed
    /\ par.tick < MaxTicks
    /\ AllFinished(par)
    /\ par' = [par EXCEPT !.tick = @ + 1,
                          !.running = [b \in bots |-> IF b \in par.enabled THEN @[b] + 1 ELSE @[b]],
                          !.pc = [b \in bots |-> IF b \in par.enabled THEN "submitted" ELSE @[b]]]
    /\ UNCHANGED <<engine, db_bot, bot, trades, price_history, coin_units, snapshots, swaps, obs>>

Runs(b, pc) ==
    /\ engine = "parallel"
    /\ ~par.crashed
    /\ par.running[b] > 0
    /\ par.pc[b] = pc

\* Lines 371-387: prices fetched, update_prices adds its rows and commits.
ParUpdatePrices(b) ==
    /\ Runs(b, "submitted")
    /\ par' = [Commit(Add(par, b, "prices")) EXCEPT !.pc[b] = "priced"]
    /\ UNCHANGED <<engine, db_bot, bot, trades, price_history, coin_units, snapshots, swaps, obs>>

\* Lines 402-431, 459-465: no target, or no trade id.
ParNoSwap(b) ==
    /\ Runs(b, "priced")
    /\ par' = Finish(par, b, "done")
    /\ UNCHANGED <<engine, db_bot, bot, trades, price_history, coin_units, snapshots, swaps, obs>>

\* Lines 432-444: the gateway returned an id, self.db.add(trade).
ParAddTrade(b) ==
    /\ Runs(b, "priced")
    /\ par' = [Add(par, b, "trades") EXCEPT !.pc[b] = "trade_added"]
    /\ UNCHANGED <<engine, db_bot, bot, trades, price_history, coin_units, snapshots, swaps, obs>>

\* Lines 447-455: bot.db_bot.current_coin = target_coin.
ParSetCoin(b) ==
    /\ Runs(b, "trade_added")
    /\ par' = [Add(par, b, "current_coin") EXCEPT !.pc[b] = "coin_set"]
    /\ UNCHANGED <<engine, db_bot, bot, trades, price_history, coin_units, snapshots, swaps, obs>>

\* Lines 457-458: self.db.commit() and return.
ParCommit(b) ==
    /\ Runs(b, "coin_set")
    /\ par' = Finish(Commit(par), b, "done")
    /\ UNCHANGED <<engine, db_bot, bot, trades, price_history, coin_units, snapshots, swaps, obs>>

\* A statement of the task raises.  The handler of lines 466-467 logs and
\* returns, with no rollback; an exception that left the task would be raised
\* again by future.result() and end CryptoRebalancer.run.
ParRaise(b) ==
    /\ \E pc \in TryBlock : Runs(b, pc)
    /\ par' = IF Caught(par.pc[b]) THEN Finish(par, b, "failed")
              ELSE [par EXCEPT !.crashed = TRUE]
    /\ UNCHANGED <<engine, db_bot, bot, trades, price_history, coin_units, snapshots, swaps, obs>>

ParallelRows == {Row(TRUE, 5, 1, "X", NULL, 10)}

\* Table coin_unit_tracker when CryptoRebalancer starts: empty, or with the row
\* test_protection.py 61-63 has written for the second coin of the bot.
TrackerRows == {EmptyMap, [c \in {Coins[2]} |-> RInt(ScriptHeldUnits)]}

Init ==
    /\ \/ engine = "rebalancer" /\ db_bot \in RebalancerRows
       \/ engine = "script" /\ db_bot \in ScriptRows
       \/ engine = "enhanced" /\ db_bot \in EnhancedRows
       \/ engine = "parallel" /\ db_bot \in ParallelRows
    /\ par \in {ParInit(enabled) : enabled \in IF engine = "parallel" THEN EnabledSets ELSE {{}}}
    /\ bot = BotInit(db_bot, EmptyMap)
    /\ trades = <<>>
    /\ price_history = <<>>
    /\ coin_units \in (IF engine = "rebalancer" THEN TrackerRows ELSE {EmptyMap})
    /\ snapshots = EmptyMap
    /\ swaps = 0
    /\ obs = NoObs

Next ==
    \/ TickIdle
    \/ \E status \in GatewayStatuses : TickPoll(status)
    \/ \E primary \in SourceAnswers :
          \E fallback \in (IF primary.raised THEN SourceAnswers ELSE {Raised}) :
             \E gw \in GatewayAnswers : TickEvaluate(primary, fallback, gw)
    \/ Restart
    \/ \E prices \in ScriptMaps, store_as_last \in BOOLEAN :
          ScriptUpdatePrices(prices, store_as_last)
    \/ \E coin \in CoinSet : ScriptUpdateHeldUnits(coin)
    \/ \E prices \in ScriptMaps : ScriptFindBestSwap(prices)
    \/ \E prices \in EnhancedMaps : EnhancedInitialize(prices)
    \/ \E prices \in EnhancedMaps : EnhancedShouldSwap(prices)
    \/ \E to_coin \in CoinSet, units_received \in UnitsReceived, prices \in EnhancedMaps :
          EnhancedUpdateAfterSwap(to_coin, units_received, prices)
    \/ ParTick
    \/ \E b \in bots : ParUpdatePrices(b)
    \/ \E b \in bots : ParNoSwap(b)
    \/ \E b \in bots : ParAddTrade(b)
    \/ \E b \in bots : ParSetCoin(b)
    \/ \E b \in bots : ParCommit(b)
    \/ \E b \in bots : ParRaise(b)

Spec == Init /\ [][Next]_vars

\* ======================================================================
\* Properties
\* ======================================================================
Pending == {i \in 1..Len(trades) : trades[i].status = "pending"}
LastTrade == trades[Len(trades)]
Threshold == Pct(bot.threshold_pct)

\* The target the cycle would pick if the changes were measured between the
\* baseline it started with and the prices it fetched.
FreshTarget ==
    LET b == [bot EXCEPT !.current_coin = obs.start_coin, !.last_prices = obs.baseline]
    IN  find_best_swap(b, calculate_changes(b, obs.prices).changes)

\* C1: a full cycle of an enabled bot with no active trade measures the changes
\* between the previous cycle's prices and the prices it fetched; when a
\* never-held candidate then exceeds the 5% threshold and the gateway does not
\* fail, the cycle ends with a pending trade held -> candidate and the
\* candidate held.
C1_FreshPricesSwap ==
    ( /\ obs.op = "cycle"
      /\ bot.threshold_pct = 5
      /\ obs.fetched
      /\ obs.path # "gateway_failed"
      /\ FreshTarget # NULL
      /\ ~Has(coin_units, FreshTarget) )
    => ( /\ obs.path = "accepted"
         /\ bot.current_coin = FreshTarget
         /\ LastTrade.from_coin = obs.start_coin
         /\ LastTrade.to_coin = FreshTarget
         /\ LastTrade.status = "pending" )

\* C2: at most one trade row of the bot is pending, in every state.
C2_AtMostOnePending == Cardinality(Pending) <= 1

\* C3: find_best_swap never returns a candidate whose change is <= the
\* threshold, and returns nothing when every change is 0 under a 5% threshold.
C3_Rule1 ==
    (obs.op \in {"find_best_swap", "cycle"})
    => /\ obs.target # NULL =>
            /\ Has(obs.changes, obs.target)
            /\ RLt(Threshold, obs.changes[obs.target])
       /\ ( /\ bot.threshold_pct = 5
            /\ \A c \in DOMAIN obs.changes : obs.changes[c] = RInt(0) )
          => obs.target = NULL

\* find_best_swap returned a coin while another candidate sat at or below the bar.
C3_Witness ==
    /\ obs.op = "find_best_swap"
    /\ obs.target # NULL
    /\ \E c \in DOMAIN obs.changes : RLe(obs.changes[c], Threshold)

\* The units should_swap estimates for a candidate: units held of the held
\* coin * price(held) / price(candidate).
ReentryUnits(coin) ==
    RMul(snapshots[db_bot.current_coin].units_held,
         R(obs.prices[db_bot.current_coin], obs.prices[coin]))

ReentrySelected ==
    /\ obs.op = "should_swap"
    /\ obs.target # NULL
    /\ snapshots[obs.target].was_ever_held

PostSwapValue(coin) ==
    RMul(ReentryUnits(coin), R(obs.prices[coin], obs.prices[ReferenceCoin(db_bot)]))

ConfiguredLossPct ==
    IF db_bot.global_threshold_percentage # 0
    THEN db_bot.global_threshold_percentage
    ELSE DefaultGlobalThresholdPct

\* C5: whenever should_swap selects a target, its estimated post-swap value is
\* >= peak * (1 - the bot's configured global-loss threshold).
C5_Rule3Configured ==
    (obs.op = "should_swap" /\ obs.target # NULL)
    => RLe(RMul(db_bot.global_peak_value, Pct(100 - ConfiguredLossPct)),
           PostSwapValue(obs.target))

\* The protections find_best_swap documents, for the Bot path: more units than
\* the tracker records, and a global equivalent not under the floor.
BotEstimate(coin) ==
    estimate_units_to_receive(obs.start_coin, coin, RInt(TradeAmount), obs.prices)

BotRule2Passes(coin) == RLt(get_last_held_units(coin), BotEstimate(coin))

BotRule3Passes(coin) ==
    RLe(RMul(bot.max_global_equivalent, Pct(100 - bot.global_threshold_pct)),
        calculate_global_equivalent(bot, coin, BotEstimate(coin), obs.prices))

Passing == {c \in DOMAIN obs.changes : BotRule2Passes(c) /\ BotRule3Passes(c)}

\* C6: the evaluator returns the first candidate of the ranked list (largest
\* change over the threshold first) that passes Rule 2 and Rule 3, and nothing
\* only when no candidate passes all three rules.
C6_FirstFit ==
    (obs.op = "find_best_swap" /\ obs.path = "returned")
    => obs.target = BestLoop(Restrict(obs.changes, Passing), Threshold, 1, NULL)

\* C7: after every evaluation cycle that obtained prices for the held and the
\* reference coin, the peak is >= the reference-equivalent value of the held
\* coin (the units the tracker records for it) at those prices.
C7_PeakRatchet ==
    ( /\ obs.op = "cycle"
      /\ obs.fetched
      /\ obs.path # "accepted"
      /\ Has(coin_units, bot.current_coin)
      /\ Has(obs.prices, bot.current_coin)
      /\ Has(obs.prices, bot.reference_coin) )
    => RLe(RMul(coin_units[bot.current_coin],
                R(obs.prices[bot.current_coin], obs.prices[bot.reference_coin])),
           bot.max_global_equivalent)

\* C8: no step lowers the peak value (max_global_equivalent in the Bot and in
\* its row, global_peak_value in the row).
C8_PeakMonotone ==
    [][ /\ RLe(bot.max_global_equivalent, bot'.max_global_equivalent)
        /\ RLe(db_bot.max_global_equivalent, db_bot'.max_global_equivalent)
        /\ RLe(db_bot.global_peak_value, db_bot'.global_peak_value) ]_vars

\* A completed trade has raised the peak above its initial value.
C8_Witness ==
    /\ obs.op = "cycle"
    /\ obs.path = "poll"
    /\ obs.status = "completed"
    /\ RLt(RInt(DefaultMaxGlobalEquivalent), bot.max_global_equivalent)
    /\ db_bot.max_global_equivalent = bot.max_global_equivalent

\* C9: in every committed state, a bot with a pending trade has a non-null
\* persisted active_trade_id.
C9_PersistedPointer ==
    Pending # {} => db_bot.active_trade_id # NoTrade

\* C10: a cycle that starts with an active trade id fetches no prices, appends
\* no price observation, evaluates nothing and creates no trade.
C10_ActiveTradeOnlyPolls ==
    [][ (bot.active_trade_id # NoTrade /\ obs'.op = "cycle")
        => /\ ~obs'.fetched
           /\ price_history' = price_history
           /\ Len(trades') = Len(trades)
           /\ bot'.last_prices = bot.last_prices
           /\ bot'.current_coin = bot.current_coin
           /\ obs'.target = NULL ]_vars

\* A due cycle found an active trade and polled it.
C10_Witness ==
    /\ obs.op = "cycle"
    /\ obs.path = "poll"
    /\ obs.start_trade # NoTrade
    /\ obs.status = "pending"

\* The recorded status of the trade the step started with.
StartTradeStatus == trades[TradeIndex(obs.start_trade)].status

\* C11: the active-trade pointer is set to null in the step in which the
\* trade's recorded status becomes completed, failed or cancelled, and is never
\* cleared while the recorded status is not terminal.
C11_ClearedExactlyOnTerminal ==
    /\ ( /\ obs.op = "cycle"
         /\ obs.path = "poll"
         /\ obs.status \in Terminal )
       => bot.active_trade_id = NoTrade
    /\ (obs.start_trade # NoTrade /\ bot.active_trade_id = NoTrade)
       => StartTradeStatus \in Terminal

GatewayFailed == obs.gateway \in {"none", "raise"}

\* C12: when create_smart_trade returns no id or raises, the cycle creates no
\* trade row and leaves the held coin, the active-trade pointer, the unit
\* tracker, the snapshots and the peak as they were.
C12_GatewayFailureKeepsState ==
    [][ (obs'.op = "cycle" /\ obs'.gateway \in {"none", "raise"})
        => /\ trades' = trades
           /\ bot'.current_coin = bot.current_coin
           /\ db_bot'.current_coin = db_bot.current_coin
           /\ bot'.active_trade_id = bot.active_trade_id
           /\ db_bot'.active_trade_id = db_bot.active_trade_id
           /\ coin_units' = coin_units
           /\ snapshots' = snapshots
           /\ bot'.max_global_equivalent = bot.max_global_equivalent
           /\ db_bot'.max_global_equivalent = db_bot.max_global_equivalent
           /\ db_bot'.global_peak_value = db_bot.global_peak_value ]_vars

\* A cycle found a target and the gateway did not create the trade.
C12_Witness ==
    /\ obs.op = "cycle"
    /\ GatewayFailed
    /\ obs.target # NULL
    /\ bot.current_coin = obs.start_coin

\* C13: a tick for a bot that is disabled, or whose interval has not elapsed
\* since its last check, fetches nothing and changes nothing: no price
\* observation, no trade, the same held coin, last prices, peak and last-check
\* stamp (only the clock moves).
C13_NotDueIsNoOp ==
    [][ ( /\ obs'.op = "cycle"
          /\ \/ ~bot.enabled
             \/ /\ bot.last_check_time # NoTime
                /\ bot.last_check_time + 1 < bot.check_interval )
        => /\ ~obs'.fetched
           /\ price_history' = price_history
           /\ trades' = trades
           /\ coin_units' = coin_units
           /\ bot' = [bot EXCEPT !.last_check_time = Age(@, bot.check_interval)]
           /\ db_bot' = [db_bot EXCEPT !.last_check_time = Age(@, db_bot.check_interval)] ]_vars

\* A tick came before the interval had elapsed since a full cycle.
C13_Witness ==
    /\ obs.op = "cycle"
    /\ obs.path = "not_due"
    /\ Len(price_history) > 0

\* C14: Bot.find_best_swap does not return a candidate over the threshold when
\* the units estimated for it at current prices are not more than the units
\* the tracker records for it.
C14_UnitProtection ==
    (obs.op = "find_best_swap" /\ obs.target # NULL)
    => BotRule2Passes(obs.target)

\* C15: Bot.find_best_swap does not return a candidate over the threshold when
\* the reference equivalent of the position it would yield is below
\* max_global_equivalent * (1 - global_threshold).
C15_GlobalProtection ==
    (obs.op = "find_best_swap" /\ obs.target # NULL)
    => BotRule3Passes(obs.target)

CoinIndex(coin) == CHOOSE i \in 1..Len(Coins) : Coins[i] = coin

OverThreshold == {c \in DOMAIN obs.changes : RLt(Threshold, obs.changes[c])}

\* C16: among the candidates over the threshold Bot.find_best_swap returns the
\* one with the largest change, the first of them in iteration order when
\* several share it, and returns one whenever there is one.
C16_Ranking ==
    (obs.op = "find_best_swap" /\ obs.path = "returned")
    => /\ OverThreshold # {} <=> obs.target # NULL
       /\ obs.target # NULL =>
            /\ obs.target \in OverThreshold
            /\ \A c \in OverThreshold :
                  /\ RLe(obs.changes[c], obs.changes[obs.target])
                  /\ obs.changes[c] = obs.changes[obs.target]
                     => CoinIndex(obs.target) <= CoinIndex(c)

\* find_best_swap passed over an earlier candidate over the threshold for a
\* later one with a larger change.
C16_Witness ==
    /\ obs.op = "find_best_swap"
    /\ obs.target # NULL
    /\ \E c \in OverThreshold :
          /\ CoinIndex(c) < CoinIndex(obs.target)
          /\ RLt(obs.changes[c], obs.changes[obs.target])

\* C17: a poll that resolves the trade as failed or cancelled (or returns any
\* status other than completed) leaves the unit tracker, the snapshots and
\* the peak unchanged.
C17_OnlyCompletedUpdates ==
    [][ (obs'.op = "cycle" /\ obs'.path = "poll" /\ obs'.status # "completed")
        => /\ coin_units' = coin_units
           /\ snapshots' = snapshots
           /\ bot'.max_global_equivalent = bot.max_global_equivalent
           /\ db_bot'.max_global_equivalent = db_bot.max_global_equivalent
           /\ db_bot'.global_peak_value = db_bot.global_peak_value ]_vars

\* A poll resolved the active trade as failed or cancelled.
C17_Witness ==
    /\ obs.op = "cycle"
    /\ obs.path = "poll"
    /\ obs.status \in {"failed", "cancelled"}
    /\ StartTradeStatus = obs.status
    /\ bot.active_trade_id = NoTrade

\* C18: the recorded status of every trade is one of pending, completed,
\* failed, cancelled.
C18_StatusDomain ==
    \A i \in 1..Len(trades) : trades[i].status \in {"pending"} \cup Terminal

\* C19: when the primary price source fails (raises or returns no price), the
\* fallback source is queried in the same cycle.
C19_FallbackOnFailure ==
    (obs.op = "cycle" /\ obs.fetched /\ obs.primary \in {"raised", "empty"})
    => obs.fallback_queried

\* The candidates present in both price maps of a calculate_changes call.
PresentInBoth ==
    {c \in CoinSet \ {obs.start_coin} : Has(obs.prices, c) /\ Has(obs.baseline, c)}

\* C20: with the held coin in both maps, calculate_changes does not raise when
\* a candidate is missing from a map and returns the changes of the
\* candidates present in both.
C20_PartialFeed ==
    ( /\ obs.op = "find_best_swap"
      /\ Has(obs.prices, obs.start_coin)
      /\ Has(obs.baseline, obs.start_coin) )
    => /\ obs.path = "returned"
       /\ DOMAIN obs.changes = PresentInBoth

\* The candidates of a calculate_changes call whose change is defined: those
\* in both maps with a non-zero ratio at the last observation.
Defined ==
    {c \in PresentInBoth : obs.baseline[c] # 0}

\* C21: with a zero price in a map (a zero last ratio of a candidate, or a
\* zero price of the held coin), calculate_changes raises no arithmetic error:
\* the call returns, with no value for a candidate whose change is undefined
\* and a value for every other candidate.
C21_ZeroDenominator ==
    ( /\ obs.op = "find_best_swap"
      /\ Has(obs.prices, obs.start_coin)
      /\ Has(obs.baseline, obs.start_coin)
      /\ PresentInBoth = CoinSet \ {obs.start_coin}
      /\ \E c \in CoinSet : obs.prices[c] = 0 \/ obs.baseline[c] = 0 )
    => /\ obs.path = "returned"
       /\ DOMAIN obs.changes \subseteq Defined
       /\ ( obs.prices[obs.start_coin] # 0 /\ obs.baseline[obs.start_coin] # 0 )
          => DOMAIN obs.changes = Defined

\* The held coin is missing from a map of the calculate_changes call of a
\* cycle: update_prices has stored the fetched prices as the last prices, so
\* both maps are the fetched one.
CycleHeldMissing ==
    /\ obs.op = "cycle"
    /\ obs.fetched
    /\ obs.prices # EmptyMap
    /\ bot.current_coin # NULL
    /\ ~Has(obs.prices, bot.current_coin)

\* The same for a direct call of calculate_changes.
CallHeldMissing ==
    /\ obs.op = "find_best_swap"
    /\ obs.start_coin # NULL
    /\ ~Has(obs.prices, obs.start_coin) \/ ~Has(obs.baseline, obs.start_coin)

\* C22: with the held coin missing from the current prices or from the last
\* prices, calculate_changes returns an empty mapping and does not raise; the
\* cycle ends with no target, no gateway call and no trade.
C22_HeldMissingIsEmpty ==
    /\ CallHeldMissing
       => obs.path = "returned" /\ obs.changes = EmptyMap /\ obs.target = NULL
    /\ CycleHeldMissing
       => /\ obs.path = "no_changes"
          /\ obs.target = NULL
          /\ obs.gateway = NULL
          /\ bot.active_trade_id = obs.start_trade

C22_Witness ==
    /\ CycleHeldMissing
    /\ obs.path = "no_changes"
    /\ bot.last_prices = obs.prices

PositivePrices(m) == \A c \in DOMAIN m : m[c] > 0

\* C23: for maps of positive prices that contain the held coin,
\* calculate_changes returns a value for exactly the candidates present in
\* both maps, none for the held coin, and the sign of change[c] is the sign of
\* price_now[c] * price_then[held] - price_then[c] * price_now[held].
C23_DomainAndSign ==
    ( /\ obs.op = "find_best_swap"
      /\ Has(obs.prices, obs.start_coin)
      /\ Has(obs.baseline, obs.start_coin)
      /\ PositivePrices(obs.prices)
      /\ PositivePrices(obs.baseline) )
    => /\ obs.path = "returned"
       /\ DOMAIN obs.changes = PresentInBoth
       /\ ~Has(obs.changes, obs.start_coin)
       /\ \A c \in DOMAIN obs.changes :
             LET now  == obs.prices[c] * obs.baseline[obs.start_coin]
                 then == obs.baseline[c] * obs.prices[obs.start_coin]
             IN  /\ obs.changes[c][1] > 0 <=> now > then
                 /\ obs.changes[c][1] = 0 <=> now = then
                 /\ obs.changes[c][1] < 0 <=> now < then

\* The cycle of the last tick ended early on an error: no price from any
\* source, an exception of calculate_changes, or a gateway call that raised or
\* returned no id.
CycleFailed ==
    /\ obs.op = "cycle"
    /\ obs.path \in {"no_prices", "aborted", "gateway_failed"}

\* C24: after a cycle that failed with an error the bot is due again at the
\* next tick of the scheduler: the failed cycle does not turn the following
\* tick into a no-op.
C24_RetriedNextTick ==
    CycleFailed => Due(Aged(bot))

\* C25: an exception raised in the cycle of one bot never leaves
\* check_and_rebalance_bot: CryptoRebalancer.run is never ended by it, and the
\* task of every enabled bot of an earlier tick has run to its end.
C25_FailureIsolation ==
    /\ ~par.crashed
    /\ \A t \in 1..(par.tick - 1), b \in par.enabled :
          <<b, t, "done">> \in par.ended \/ <<b, t, "failed">> \in par.ended

C25_Witness ==
    /\ <<"A", 1, "failed">> \in par.ended
    /\ <<"B", 1, "done">> \in par.ended
    /\ par.tick = 2
    /\ par.pc["A"] = "done"

\* C26: the accept mutation of a bot is persisted all at once or not at all:
\* under any interleaving of the tasks the store never holds the trade row of
\* an accepted swap without the new held coin of that bot, because a commit of
\* one task persists no pending change of another.
C26_AtomicAccept ==
    \A b \in bots : par.store[b]["trades"] = par.store[b]["current_coin"]

\* C27: a tick submits at most one task per enabled bot and none for a
\* disabled one, and starts only when every task of the tick before has
\* returned: a bot never has two tasks running.
C27_OneTaskPerBot ==
    \A b \in bots :
        /\ par.running[b] <= 1
        /\ par.running[b] > 0 => b \in par.enabled
        /\ par.running[b] > 0 <=> par.pc[b] \in TryBlock

C27_Witness ==
    /\ par.tick = 2
    /\ \A b \in bots : par.running[b] = 1
    /\ par.pc["A"] # par.pc["B"]

\* C28: the held coin of a bot, when set, is one of the coins of the bot.
C28_HeldInCandidates ==
    bot.current_coin # NULL => bot.current_coin \in CoinSet

\* C29: the initial price of an existing snapshot never changes and the
\* snapshot is never replaced: initialize_snapshots, should_swap and
\* update_after_swap all leave it as first written.
C29_InitialPriceImmutable ==
    [][ \A c \in DOMAIN snapshots :
           /\ Has(snapshots', c)
           /\ snapshots'[c].initial_price = snapshots[c].initial_price ]_vars

C29_Witness ==
    /\ obs.op = "initialize_snapshots"
    /\ obs.path = "true"
    /\ swaps > 0
    /\ \E c \in DOMAIN snapshots : snapshots[c].initial_price # obs.prices[c]

\* C30: the units recorded per coin as the most ever held never decrease: the
\* record of a coin in coin_unit_tracker and max_units_reached of a snapshot
\* are, after any step, at least what they were before it.
C30_HighWaterMark ==
    [][ /\ \A c \in DOMAIN coin_units :
             Has(coin_units', c) /\ RLe(coin_units[c], coin_units'[c])
        /\ \A c \in DOMAIN snapshots :
             /\ Has(snapshots', c)
             /\ RLe(snapshots[c].max_units_reached, snapshots'[c].max_units_reached) ]_vars

\* C31: should_swap never raises: for every price map it returns, with no
\* decision or without the candidate whose data is inconsistent.
C31_NeverRaises ==
    obs.op = "should_swap" => obs.path # "raised"

\* C32: a bot whose swap threshold is not positive is never scheduled: none of
\* its cycles runs, so it fetches no price and creates no trade.
C32_InvalidConfigNeverRuns ==
    (engine = "rebalancer" /\ db_bot.threshold_percentage <= 0)
    => /\ obs.op # "cycle"
       /\ price_history = <<>>
       /\ trades = <<>>

\* ------------------------------------------------- the scheduler keeps going
\* CryptoRebalancer.run alone, with the scheduling the claim of C33 assumes:
\* minutes keep passing, and a poll that is due again and again gets a
\* terminal status from the gateway at some point.  A restart may happen at
\* any time and need not.
LiveInit ==
    /\ Init
    /\ engine = "rebalancer"
    /\ db_bot.check_interval = 2
    /\ coin_units = EmptyMap

\* One run of check_all_bots for the bot.
Tick ==
    \/ TickIdle
    \/ \E status \in GatewayStatuses : TickPoll(status)
    \/ \E primary \in SourceAnswers :
          \E fallback \in (IF primary.raised THEN SourceAnswers ELSE {Raised}) :
             \E gw \in GatewayAnswers : TickEvaluate(primary, fallback, gw)

LiveNext ==
    \/ TickIdle
    \/ \E status \in GatewayStatuses : TickPoll(status)
    \/ \E primary \in SourceAnswers :
          \E fallback \in (IF primary.raised THEN SourceAnswers ELSE {Raised}) :
             \E gw \in GatewayAnswers : TickEvaluate(primary, fallback, gw)
    \/ Restart

LiveSpec ==
    /\ LiveInit
    /\ [][LiveNext]_vars
    /\ WF_vars(Tick)
    /\ SF_vars(\E status \in Terminal : TickPoll(status))

Observed(c) == {i \in 1..Len(price_history) : Has(price_history[i], c)}
LastSeen(c) == CHOOSE i \in Observed(c) : \A j \in Observed(c) : j <= i

\* C34: a Bot rebuilt from the store holds, for every coin that has an
\* observation in price_history, the price of the most recent one.
C34_RestartSeeding ==
    obs.op = "restart"
    => \A c \in CoinSet :
          Observed(c) # {}
          => /\ Has(bot.last_prices, c)
             /\ bot.last_prices[c] = price_history[LastSeen(c)][c]

\* The deviation of a candidate in the last should_swap call, and the
\* candidates that call could have returned if a drop of exactly the threshold
\* counted: a drop of threshold_percentage or more, Rule 2 and Rule 3 passed.
Dev(c) == Deviation(obs.prices, snapshots, c, db_bot.current_coin)

HeldValue ==
    RMul(R(obs.prices[db_bot.current_coin], obs.prices[ReferenceCoin(db_bot)]),
         snapshots[db_bot.current_coin].units_held)

DroppedEnough ==
    {c \in CoinSet \ {db_bot.current_coin} :
        /\ Has(obs.prices, c)
        /\ Has(snapshots, c)
        /\ obs.prices[c] # 0
        /\ ~DeviationRaises(obs.prices, snapshots, c, db_bot.current_coin)
        /\ RLe(Dev(c), Pct(-Abs(db_bot.threshold_percentage)))}

PassesRules23(c) ==
        LET reference_price == obs.prices[ReferenceCoin(db_bot)]
            estimated_units == EstimatedUnits(HeldValue, reference_price, obs.prices[c])
            estimated_value == EstimatedValue(estimated_units, obs.prices[c], reference_price)
        IN  /\ ~Rule2Rejects(snapshots[c], estimated_units)
            /\ ~Rule3Rejects(estimated_value, db_bot.min_acceptable_value)

EligibleWithBoundary == {c \in DroppedEnough : PassesRules23(c)}

\* The same with the comparison of line 201: a drop of more than the threshold.
DroppedMore ==
    {c \in DroppedEnough : RLt(Dev(c), Pct(-Abs(db_bot.threshold_percentage)))}

Eligible == {c \in DroppedMore : PassesRules23(c)}

PassedRules12 ==
    {c \in DroppedMore :
        ~Rule2Rejects(snapshots[c],
                      RDiv(RMul(HeldValue, RInt(obs.prices[ReferenceCoin(db_bot)])),
                           RInt(obs.prices[c])))}

\* Rule 3 seen from the held coin alone: 0.99 x its reference value against
\* the floor.
HeldPassesRule3 ==
    RLe(db_bot.min_acceptable_value, RMul(HeldValue, Pct(FeeFactorPct)))

\* C36: in one should_swap call Rule 3 decides the same for every candidate,
\* by 0.99 x the reference value of the held coin: with candidates that passed
\* Rules 1 and 2, a coin is returned exactly when that value is not under the
\* floor, it is the one with the lowest deviation of them, and when the peak
\* is the current value Rule 3 rejects none.
C36_Rule3Uniform ==
    (obs.op = "should_swap" /\ obs.path = "returned" /\ PassedRules12 # {})
    => /\ obs.target # NULL <=> HeldPassesRule3
       /\ obs.target # NULL =>
             /\ obs.target \in PassedRules12
             /\ \A c \in PassedRules12 : RLe(Dev(obs.target), Dev(c))
       /\ db_bot.global_peak_value = HeldValue => obs.target # NULL

C36_Witness ==
    /\ obs.op = "should_swap"
    /\ obs.path = "returned"
    /\ Cardinality(PassedRules12) = 2
    /\ obs.target = NULL
    /\ RLt(HeldValue, db_bot.global_peak_value)

\* C37: from the defaults on, whatever calls of initialize_snapshots,
\* should_swap and update_after_swap were made, min_acceptable_value is
\* 0.9 x global_peak_value, whatever global_threshold_percentage is.
C37_FloorIsNinetyPct ==
    engine = "enhanced"
    => db_bot.min_acceptable_value = RMul(db_bot.global_peak_value, Pct(MinAcceptablePct))

C37_Witness ==
    /\ obs.op = "should_swap"
    /\ swaps > 0
    /\ db_bot.global_threshold_percentage = 5
    /\ RLt(RInt(1), db_bot.global_peak_value)
    /\ db_bot.global_peak_value = HeldValue

\* The trade a poll was about.
PolledTrade == trades[TradeIndex(obs.start_trade)]

\* C38: a poll of the active trade leaves the held coin alone, whatever the
\* status: the bot holds the target of the trade since the accept, also after
\* the trade is recorded as failed or cancelled.
C38_ResolutionKeepsHeld ==
    (obs.op = "cycle" /\ obs.path = "poll")
    => /\ bot.current_coin = obs.start_coin
       /\ TradeIndex(obs.start_trade) # 0 =>
             /\ bot.current_coin = PolledTrade.to_coin
             /\ db_bot.current_coin = PolledTrade.to_coin

C38_Witness ==
    /\ obs.op = "cycle"
    /\ obs.path = "poll"
    /\ obs.status \in {"failed", "cancelled"}
    /\ TradeIndex(obs.start_trade) # 0
    /\ PolledTrade.status = obs.status
    /\ bot.current_coin = PolledTrade.to_coin
    /\ bot.current_coin # PolledTrade.from_coin

\* C39: after any step every snapshot has max_units_reached >= units_held and
\* was_ever_held set when units_held > 0, and was_ever_held, once set, stays.
C39_SnapshotConsistent ==
    [][ /\ \A c \in DOMAIN snapshots' :
             /\ RLe(snapshots'[c].units_held, snapshots'[c].max_units_reached)
             /\ RLt(RInt(0), snapshots'[c].units_held) => snapshots'[c].was_ever_held
        /\ \A c \in DOMAIN snapshots :
             snapshots[c].was_ever_held => Has(snapshots', c) /\ snapshots'[c].was_ever_held ]_vars

C39_Witness ==
    /\ obs.op = "update_after_swap"
    /\ swaps = 2
    /\ \E c \in DOMAIN snapshots :
          /\ RLt(RInt(0), snapshots[c].units_held)
          /\ RLt(snapshots[c].units_held, snapshots[c].max_units_reached)
    /\ \E c \in DOMAIN snapshots :
          snapshots[c].was_ever_held /\ snapshots[c].units_held = RInt(0)

====
